---- MODULE Spec2Model ----
(***************************************************************************)
(* KatelyaTV user-data persistence layer: the two storage adapters         *)
(* (KvrocksStorage, RedisStorage) over a Redis-protocol key-value store.   *)
(*                                                                         *)
(* Strings that the code concatenates into backend keys, matches against   *)
(* glob patterns or cuts with String.replace (user names, content keys,    *)
(* backend keys) are sequences of one-character strings.  Strings that are *)
(* only compared (passwords, search queries, settings values) are TLA+     *)
(* strings.  A JavaScript value is a record [t |-> type, v |-> payload].   *)
(***************************************************************************)
EXTENDS Integers, Sequences, FiniteSets, TLC

VARIABLES
  store,     \* store[a]: the backend of adapter a: [str, list, set], each a map from keys
  pwd,       \* history: pwd[u] = the password last set for u since its registration, or NoUser
  pc,        \* pc[p]: the addSearchHistory call in flight on worker p: its arguments, its next
             \* backend call (step) and, as history, the list it found (pre)
  nextQ,     \* history: how many distinct queries have been issued so far
  repeated,  \* history: some call re-added a query or deleted history entries
  overlapped,\* history: some search-history call started while another was in flight
  used,      \* history: how many calls repeated, deleted or overlapped
  merged,    \* the last mergeUserSettings call: its arguments and what it returned
  retry,     \* the withRetry call in flight or last finished: where it is (at), the loop
             \* counter i, what it returned or threw (out) and, as history, the attempts made
             \* (calls, tried) and the waits done (waits)
  client,    \* client[a]: the connection handle cached under the global key of adapter a
  env,       \* process.env: the URL and token of each adapter
  built,     \* history: the handles created and what the last construction returned
  upd        \* upd[p]: the updateUserSettings, setSkipConfig, deleteSkipConfig or
             \* changePassword call in flight or last finished on worker p: its arguments,
             \* what it read and, as history, whether it ran alone

\* the state of the helpers, which no storage operation writes
storage == <<store, pwd, pc, nextQ, repeated, overlapped, used>>
others == <<merged, retry, client, env, built, upd>>
vars == <<store, pwd, pc, nextQ, repeated, overlapped, used, merged, retry, client, env, built, upd>>

(* ------------------------------ bounds --------------------------------- *)
\* the most keys a backend holds in the model
MaxStoreKeys == 3
\* the distinct queries a search-history run issues, one after the other
NumFreshQueries == 22
\* the calls of a search-history run that re-add a query, delete entries or
\* start while another call is in flight
MaxDisturb == 1

\* the adapters a process constructs on one backend
MaxConstructions == 3

(* ------------------------- program constants --------------------------- *)
SEARCH_HISTORY_LIMIT == 20

(* ------------------------------ inputs --------------------------------- *)
Users == { <<"a", "d", "m", "i", "n">>, <<"b", "o", "b">> }
Keys == { <<"e", "p", "1">>, <<"e", "p", "2">> }
Records == { [introEnd |-> 90, outroStart |-> 1300], [introEnd |-> 60, outroStart |-> 1200] }
Passwords == { "", "p1", "123" }
\* the values Date.now() returns (scaled to fit a 32-bit integer)
Times == { 1700000000 }
Queries == { "q01", "q02" }
QueryNames ==
  << "q01", "q02", "q03", "q04", "q05", "q06", "q07", "q08", "q09", "q10",
     "q11", "q12", "q13", "q14", "q15", "q16", "q17", "q18", "q19", "q20",
     "q21", "q22", "q23", "q24", "q25", "q26" >>

Min(a, b) == IF a < b THEN a ELSE b

Adapters == {"kvrocks", "redis"}
NoUser == "<no user>"

(* --------------------------- JavaScript values ------------------------- *)
Null == [t |-> "null", v |-> "null"]
Undefined == [t |-> "undefined", v |-> "undefined"]
Obj(x) == [t |-> "object", v |-> x]
Str(s) == [t |-> "string", v |-> s]
Num(n) == [t |-> "number", v |-> n]
Bool(b) == [t |-> "boolean", v |-> b]

\* ToBoolean: null, undefined, "", 0 and false are falsy
Truthy(x) ==
  /\ x.t \notin {"null", "undefined"}
  /\ ~(x.t = "string" /\ x.v = "")
  /\ ~(x.t = "number" /\ x.v = 0)
  /\ ~(x.t = "boolean" /\ x.v = FALSE)

\* the === operator
StrictEq(x, y) == x.t = y.t /\ x.v = y.v

\* decimal strings the model uses, with the number each denotes
NumericStrings == [s \in {"123"} |-> 123]

\* String(value) for the primitive values the adapters convert
ensureString(value) ==
  IF value.t = "string" THEN value
  ELSE IF value.t = "number"
    THEN Str(CHOOSE s \in DOMAIN NumericStrings : NumericStrings[s] = value.v)
  ELSE Str(value.t)

\* the client's automatic deserialization of a reply: JSON.parse where it parses
Deserialize(x) ==
  IF x.t = "string" /\ x.v \in DOMAIN NumericStrings THEN Num(NumericStrings[x.v]) ELSE x

(* ------------------------------ strings -------------------------------- *)
RECURSIVE GlobMatch(_, _)
\* the KEYS glob: * is any run of characters, ? any one character
GlobMatch(p, s) ==
  IF p = <<>> THEN s = <<>>
  ELSE IF Head(p) = "*"
    THEN GlobMatch(Tail(p), s) \/ (s # <<>> /\ GlobMatch(p, Tail(s)))
  ELSE IF Head(p) = "?"
    THEN s # <<>> /\ GlobMatch(Tail(p), Tail(s))
  ELSE s # <<>> /\ Head(s) = Head(p) /\ GlobMatch(Tail(p), Tail(s))

\* s.replace(pat, ''): cut the first occurrence of pat out of s
ReplaceFirst(s, pat) ==
  LET occ == { i \in 1..(Len(s) - Len(pat) + 1) : SubSeq(s, i, i + Len(pat) - 1) = pat }
  IN IF occ = {} THEN s
     ELSE LET i == CHOOSE j \in occ : \A m \in occ : j <= m
          IN SubSeq(s, 1, i - 1) \o SubSeq(s, i + Len(pat), Len(s))

(* --------------------------- backend commands -------------------------- *)
EmptyStore ==
  LET none == [k \in {} |-> Null] IN [str |-> none, list |-> none, set |-> none]

Without(f, ks) == [k \in (DOMAIN f) \ ks |-> f[k]]
With(f, key, val) == [k \in (DOMAIN f) \cup {key} |-> IF k = key THEN val ELSE f[k]]

AllKeys(st) == (DOMAIN st.str) \cup (DOMAIN st.list) \cup (DOMAIN st.set)

GET(st, key) == IF key \in DOMAIN st.str THEN Deserialize(st.str[key]) ELSE Null
SET(st, key, val) ==
  [str |-> With(st.str, key, val),
   list |-> Without(st.list, {key}),
   set |-> Without(st.set, {key})]
DEL(st, ks) ==
  [str |-> Without(st.str, ks), list |-> Without(st.list, ks), set |-> Without(st.set, ks)]
EXISTS(st, key) == IF key \in AllKeys(st) THEN 1 ELSE 0
KEYS(st, pattern) == { k \in AllKeys(st) : GlobMatch(pattern, k) }

LRANGE(st, key) == IF key \in DOMAIN st.list THEN st.list[key] ELSE <<>>
\* a list or a set that becomes empty is removed with its key
PutList(st, key, l) ==
  [st EXCEPT !.list = IF l = <<>> THEN Without(@, {key}) ELSE With(@, key, l)]
LREM(st, key, q) == PutList(st, key, SelectSeq(LRANGE(st, key), LAMBDA x : x # q))
LPUSH(st, key, q) == PutList(st, key, <<q>> \o LRANGE(st, key))
LTRIM(st, key, last) ==
  PutList(st, key, SubSeq(LRANGE(st, key), 1, Min(last + 1, Len(LRANGE(st, key)))))

SMEMBERS(st, key) == IF key \in DOMAIN st.set THEN st.set[key] ELSE {}
PutSet(st, key, s) ==
  [st EXCEPT !.set = IF s = {} THEN Without(@, {key}) ELSE With(@, key, s)]
SADD(st, key, m) == PutSet(st, key, SMEMBERS(st, key) \cup {m})
SREM(st, key, m) == PutSet(st, key, SMEMBERS(st, key) \ {m})

(* ------------------------- settings (settings.ts) ---------------------- *)
SettingsFields == {"filter_adult_content", "theme", "language", "auto_play", "video_quality"}

\* a ?? b: b when a is null or undefined, else a
Nullish(x) == x \in {"undefined", "null"}
\* a || b in the place of a ?? b
CoalesceOr(a, b) == IF Nullish(a) \/ a \in {"false", ""} THEN b ELSE a
Coalesce(a, b) == IF Nullish(a) THEN b ELSE a

\* current?.field
OptField(current, f) ==
  IF current.t \in {"null", "undefined"} THEN "undefined" ELSE current.v[f]

mergeUserSettings(defaults, current, partial) ==
  [f \in SettingsFields |-> Coalesce(partial[f], Coalesce(OptField(current, f), defaults[f]))]

(* ------------------- KvrocksStorage (kvrocks adapter) ------------------ *)
\* keys.forEach: strip the prefix from every key that has a truthy value
CollectRecords(st, ks, prefix) ==
  LET live == { k \in ks : Truthy(GET(st, k)) }
  IN [rk \in { ReplaceFirst(k, prefix) : k \in live } |->
        GET(st, CHOOSE k \in live : ReplaceFirst(k, prefix) = rk)]

Kvrocks_prKey(user, key) == <<"u", ":">> \o user \o <<":", "p", "r", ":">> \o key
Kvrocks_getPlayRecord(st, userName, key) ==
  LET val == GET(st, Kvrocks_prKey(userName, key)) IN IF Truthy(val) THEN val ELSE Null
Kvrocks_setPlayRecord(st, userName, key, record) ==
  SET(st, Kvrocks_prKey(userName, key), Obj(record))
Kvrocks_getAllPlayRecords(st, userName) ==
  LET prefix == <<"u", ":">> \o userName \o <<":", "p", "r", ":">>
  IN CollectRecords(st, KEYS(st, prefix \o <<"*">>), prefix)
Kvrocks_deletePlayRecord(st, userName, key) == DEL(st, {Kvrocks_prKey(userName, key)})

Kvrocks_favKey(user, key) == <<"u", ":">> \o user \o <<":", "f", "a", "v", ":">> \o key
Kvrocks_getFavorite(st, userName, key) ==
  LET val == GET(st, Kvrocks_favKey(userName, key)) IN IF Truthy(val) THEN val ELSE Null
Kvrocks_setFavorite(st, userName, key, favorite) ==
  SET(st, Kvrocks_favKey(userName, key), Obj(favorite))
Kvrocks_getAllFavorites(st, userName) ==
  LET prefix == <<"u", ":">> \o userName \o <<":", "f", "a", "v", ":">>
  IN CollectRecords(st, KEYS(st, prefix \o <<"*">>), prefix)
Kvrocks_deleteFavorite(st, userName, key) == DEL(st, {Kvrocks_favKey(userName, key)})

Kvrocks_searchHistoryKey(user) ==
  <<"u", ":">> \o user \o <<":", "s", "e", "a", "r", "c", "h", "_", "h", "i", "s", "t", "o", "r", "y">>
ensureStringArray(value) == [i \in 1..Len(value) |-> ensureString(Deserialize(Str(value[i]))).v]
Kvrocks_getSearchHistory(st, userName) ==
  ensureStringArray(LRANGE(st, Kvrocks_searchHistoryKey(userName)))
\* addSearchHistory without its lrem
Kvrocks_addSearchHistoryStepNoRemove(st, userName, query, step) ==
  LET key == Kvrocks_searchHistoryKey(userName)
  IN CASE step = 1 -> st
       [] step = 2 -> LPUSH(st, key, query)
       [] step = 3 -> LTRIM(st, key, SEARCH_HISTORY_LIMIT - 1)
\* addSearchHistory pushing at the tail of the list
Kvrocks_addSearchHistoryStepAppend(st, userName, query, step) ==
  LET key == Kvrocks_searchHistoryKey(userName)
  IN CASE step = 1 -> LREM(st, key, query)
       [] step = 2 -> PutList(st, key, LRANGE(st, key) \o <<query>>)
       [] step = 3 -> LTRIM(st, key, SEARCH_HISTORY_LIMIT - 1)
\* the three backend calls of addSearchHistory, one step each
Kvrocks_addSearchHistoryStep(st, userName, query, step) ==
  LET key == Kvrocks_searchHistoryKey(userName)
  IN CASE step = 1 -> LREM(st, key, query)
       [] step = 2 -> LPUSH(st, key, query)
       [] step = 3 -> LTRIM(st, key, SEARCH_HISTORY_LIMIT - 1)
Kvrocks_addSearchHistory(st, userName, query) ==
  Kvrocks_addSearchHistoryStep(
    Kvrocks_addSearchHistoryStep(
      Kvrocks_addSearchHistoryStep(st, userName, query, 1), userName, query, 2),
    userName, query, 3)
\* query is a string, or "undefined" when the optional argument is left out
Kvrocks_deleteSearchHistory(st, userName, query) ==
  LET key == Kvrocks_searchHistoryKey(userName)
  IN IF query.t = "string" /\ Truthy(query) THEN LREM(st, key, query.v) ELSE DEL(st, {key})

Kvrocks_skipConfigKey(userName, key) ==
  <<"u", ":">> \o userName \o <<":", "s", "k", "i", "p", "_", "c", "o", "n", "f", "i", "g", ":">> \o key
Kvrocks_getSkipConfig(st, userName, key) ==
  LET val == GET(st, Kvrocks_skipConfigKey(userName, key)) IN IF Truthy(val) THEN val ELSE Null
Kvrocks_setSkipConfig(st, userName, key, config) ==
  SET(st, Kvrocks_skipConfigKey(userName, key), Obj(config))
Kvrocks_deleteSkipConfig(st, userName, key) == DEL(st, {Kvrocks_skipConfigKey(userName, key)})
Kvrocks_getAllSkipConfigs(st, userName) ==
  LET prefix == <<"u", ":">> \o userName \o <<":", "s", "k", "i", "p", "_", "c", "o", "n", "f", "i", "g", ":">>
  IN CollectRecords(st, KEYS(st, prefix \o <<"*">>), prefix)

Kvrocks_userKey(userName) == <<"u", "s", "e", "r", ":">> \o userName
Kvrocks_userListKey == <<"u", "s", "e", "r", "_", "l", "i", "s", "t">>
Kvrocks_getUser(st, userName) ==
  LET val == GET(st, Kvrocks_userKey(userName)) IN IF Truthy(val) THEN val ELSE Null
Kvrocks_setUser(st, userName, userData) ==
  SADD(SET(st, Kvrocks_userKey(userName), userData), Kvrocks_userListKey, userName)
\* now: the value Date.now() returns
Kvrocks_registerUser(st, userName, password, now) ==
  Kvrocks_setUser(st, userName,
    Obj([username |-> userName, password |-> Str(password), created_at |-> Num(now)]))
\* userData && userData.password === password
Kvrocks_verifyUser(st, userName, password) ==
  LET userData == Kvrocks_getUser(st, userName)
  IN IF Truthy(userData) THEN Bool(StrictEq(userData.v.password, Str(password))) ELSE userData
Kvrocks_checkUserExist(st, userName) == Bool(Kvrocks_getUser(st, userName).t # "null")
Kvrocks_changePassword(st, userName, newPassword) ==
  LET userData == Kvrocks_getUser(st, userName)
  IN IF Truthy(userData)
       THEN Kvrocks_setUser(st, userName, Obj([userData.v EXCEPT !.password = Str(newPassword)]))
       ELSE st
\* new Date(value).toISOString(): the ISO string of a time in milliseconds, thrown for a
\* value that is no date (times are scaled as in Times)
toISOString(value) ==
  IF value.t = "number" /\ value.v \in Times
    THEN [thrown |-> FALSE, value |-> "2023-11-14T22:13:20.000Z"]
  ELSE [thrown |-> TRUE, value |-> "RangeError: Invalid time value"]
\* without the try around the read of the creation time: the call fails as a whole
Kvrocks_getAllUsersNoCatch(st, USERNAME, failing) ==
  LET usernames == SMEMBERS(st, Kvrocks_userListKey)
      bad == { u \in usernames :
                 \/ u \in failing
                 \/ /\ "created_at" \in DOMAIN Kvrocks_getUser(st, u).v
                    /\ toISOString(Kvrocks_getUser(st, u).v.created_at).thrown }
  IN [username \in (IF bad = {} THEN usernames ELSE {}) |->
        [username |-> username,
         role |-> IF Str(username) = (IF Truthy(USERNAME) THEN USERNAME ELSE Str(<<"a", "d", "m", "i", "n">>))
                    THEN "owner" ELSE "user",
         created_at |-> IF "created_at" \in DOMAIN Kvrocks_getUser(st, username).v
                          THEN toISOString(Kvrocks_getUser(st, username).v.created_at).value
                        ELSE ""]]
\* USERNAME: process.env.USERNAME; failing: the user names whose getUser fails, retries
\* included.  The entries, each under the member of user_list it was made from
Kvrocks_getAllUsers(st, USERNAME, failing) ==
  LET usernames == SMEMBERS(st, Kvrocks_userListKey)
      ownerUsername == IF Truthy(USERNAME) THEN USERNAME ELSE Str(<<"a", "d", "m", "i", "n">>)
      created(username) ==
        IF username \in failing THEN ""
        ELSE LET userData == Kvrocks_getUser(st, username)
                 date == IF userData.t = "object" /\ "created_at" \in DOMAIN userData.v
                           THEN userData.v.created_at ELSE Undefined
             IN IF Truthy(date) /\ ~toISOString(date).thrown THEN toISOString(date).value ELSE ""
  IN [username \in usernames |->
        [username |-> username,
         role |-> IF StrictEq(Str(username), ownerUsername) THEN "owner" ELSE "user",
         created_at |-> created(username)]]
RECURSIVE Kvrocks_deleteByPatterns(_, _, _)
\* for (const pattern of patterns) { keys = keys(pattern); if (keys.length) del(...keys) }
Kvrocks_deleteByPatterns(st, patterns, i) ==
  IF i > Len(patterns) THEN st
  ELSE Kvrocks_deleteByPatterns(DEL(st, KEYS(st, patterns[i])), patterns, i + 1)
Kvrocks_deleteUser(st, userName) ==
  LET patterns ==
        << <<"u", ":">> \o userName \o <<":", "p", "r", ":", "*">>,
           <<"u", ":">> \o userName \o <<":", "f", "a", "v", ":", "*">>,
           <<"u", ":">> \o userName
             \o <<":", "s", "e", "a", "r", "c", "h", "_", "h", "i", "s", "t", "o", "r", "y">>,
           <<"u", ":">> \o userName
             \o <<":", "s", "k", "i", "p", "_", "c", "o", "n", "f", "i", "g", ":", "*">> >>
  IN Kvrocks_deleteByPatterns(
       SREM(DEL(st, {Kvrocks_userKey(userName)}), Kvrocks_userListKey, userName),
       patterns, 1)

Kvrocks_userSettingsKey(userName) ==
  <<"u", ":">> \o userName \o <<":", "s", "e", "t", "t", "i", "n", "g", "s">>
Kvrocks_defaultSettings ==
  [filter_adult_content |-> "true", theme |-> "auto", language |-> "zh-CN",
   auto_play |-> "false", video_quality |-> "auto"]
Kvrocks_getUserSettings(st, userName) ==
  LET val == GET(st, Kvrocks_userSettingsKey(userName)) IN IF Truthy(val) THEN val ELSE Null
Kvrocks_setUserSettings(st, userName, settings) ==
  SET(st, Kvrocks_userSettingsKey(userName), Obj(settings))
\* the merge without the record read
Kvrocks_updateUserSettingsFromDefaults(st, userName, settings) ==
  Kvrocks_setUserSettings(st, userName,
    mergeUserSettings(Kvrocks_defaultSettings, Undefined, settings))
Kvrocks_updateUserSettings(st, userName, settings) ==
  LET current == Kvrocks_getUserSettings(st, userName)
      updated == mergeUserSettings(Kvrocks_defaultSettings,
                   IF current.t = "null" THEN Undefined ELSE current, settings)
  IN Kvrocks_setUserSettings(st, userName, updated)

(* --------------------- RedisStorage (redis adapter) -------------------- *)
Redis_prKey(user, key) == <<"u", ":">> \o user \o <<":", "p", "r", ":">> \o key
Redis_getPlayRecord(st, userName, key) ==
  LET val == GET(st, Redis_prKey(userName, key)) IN IF Truthy(val) THEN val ELSE Null
Redis_setPlayRecord(st, userName, key, record) ==
  SET(st, Redis_prKey(userName, key), Obj(record))
Redis_getAllPlayRecords(st, userName) ==
  LET prefix == <<"u", ":">> \o userName \o <<":", "p", "r", ":">>
  IN CollectRecords(st, KEYS(st, prefix \o <<"*">>), prefix)
Redis_deletePlayRecord(st, userName, key) == DEL(st, {Redis_prKey(userName, key)})

Redis_favKey(user, key) == <<"u", ":">> \o user \o <<":", "f", "a", "v", ":">> \o key
Redis_getFavorite(st, userName, key) ==
  LET val == GET(st, Redis_favKey(userName, key)) IN IF Truthy(val) THEN val ELSE Null
Redis_setFavorite(st, userName, key, favorite) ==
  SET(st, Redis_favKey(userName, key), Obj(favorite))
Redis_getAllFavorites(st, userName) ==
  LET prefix == <<"u", ":">> \o userName \o <<":", "f", "a", "v", ":">>
  IN CollectRecords(st, KEYS(st, prefix \o <<"*">>), prefix)
Redis_deleteFavorite(st, userName, key) == DEL(st, {Redis_favKey(userName, key)})

Redis_userPwdKey(user) == <<"u", ":">> \o user \o <<":", "p", "w", "d">>
Redis_registerUser(st, userName, password) == SET(st, Redis_userPwdKey(userName), Str(password))
\* stored ? ensureString(stored) === password : false
Redis_verifyUser(st, userName, password) ==
  LET stored == GET(st, Redis_userPwdKey(userName))
  IN IF Truthy(stored) THEN Bool(StrictEq(ensureString(stored), Str(password))) ELSE Bool(FALSE)
Redis_checkUserExist(st, userName) == Bool(EXISTS(st, Redis_userPwdKey(userName)) = 1)
Redis_changePassword(st, userName, newPassword) ==
  SET(st, Redis_userPwdKey(userName), Str(newPassword))

Redis_userSettingsKey(user) ==
  <<"u", ":">> \o user \o <<":", "s", "e", "t", "t", "i", "n", "g", "s">>
Redis_shKey(user) == <<"u", ":">> \o user \o <<":", "s", "h">>

\* the key getAllUsers reads the creation time from
Redis_createdAtKey(username) ==
  <<"u", ":">> \o username \o <<":", "c", "r", "e", "a", "t", "e", "d", "_", "a", "t">>

Redis_deleteUser(st, userName) ==
  LET s1 == DEL(st, {Redis_userPwdKey(userName)})
      s2 == DEL(s1, {Redis_shKey(userName)})
      s3 == DEL(s2, KEYS(s2, <<"u", ":">> \o userName \o <<":", "p", "r", ":", "*">>))
      s4 == DEL(s3, KEYS(s3, <<"u", ":">> \o userName \o <<":", "f", "a", "v", ":", "*">>))
  IN DEL(s4, {Redis_userSettingsKey(userName)})

\* USERNAME: process.env.USERNAME; failing: the user names whose read of the creation time
\* fails, retries included.  The entries, each under the key it was made from
Redis_getAllUsers(st, USERNAME, failing) ==
  LET keys == KEYS(st, <<"u", ":", "*", ":", "p", "w", "d">>)
      ownerUsername == IF Truthy(USERNAME) THEN USERNAME ELSE Str(<<"a", "d", "m", "i", "n">>)
      \* k.match(/^u:(.+?):pwd$/)
      matches(k) ==
        /\ Len(k) >= 7
        /\ SubSeq(k, 1, 2) = <<"u", ":">>
        /\ SubSeq(k, Len(k) - 3, Len(k)) = <<":", "p", "w", "d">>
      username(k) == SubSeq(k, 3, Len(k) - 4)
      \* parseInt(timestamp as string)
      parseInt(timestamp) == IF timestamp.t = "number" THEN timestamp ELSE Str("NaN")
      created(name) ==
        IF name \in failing THEN ""
        ELSE LET timestamp == GET(st, Redis_createdAtKey(name))
             IN IF Truthy(timestamp) /\ ~toISOString(parseInt(timestamp)).thrown
                  THEN toISOString(parseInt(timestamp)).value
                ELSE ""
  IN [k \in { key \in keys : matches(key) } |->
        [username |-> username(k),
         role |-> IF StrictEq(Str(username(k)), ownerUsername) THEN "owner" ELSE "user",
         created_at |-> created(username(k))]]

Redis_defaultSettings ==
  [filter_adult_content |-> "true", theme |-> "auto", language |-> "zh-CN",
   auto_play |-> "true", video_quality |-> "auto"]
Redis_getUserSettings(st, userName) ==
  LET data == GET(st, Redis_userSettingsKey(userName))
  IN IF Truthy(data) THEN data ELSE Obj(Redis_defaultSettings)
Redis_setUserSettings(st, userName, settings) ==
  SET(st, Redis_userSettingsKey(userName), Obj(settings))
Redis_updateUserSettings(st, userName, settings) ==
  LET current == Redis_getUserSettings(st, userName)
      updated == mergeUserSettings(Redis_defaultSettings,
                   IF current.t = "null" THEN Undefined ELSE current, settings)
  IN Redis_setUserSettings(st, userName, updated)

Redis_getSearchHistory(st, userName) == ensureStringArray(LRANGE(st, Redis_shKey(userName)))
\* addSearchHistory trimming to one entry more
Redis_addSearchHistoryStepTrimLate(st, userName, keyword, step) ==
  LET key == Redis_shKey(userName)
  IN CASE step = 1 -> LREM(st, key, keyword)
       [] step = 2 -> LPUSH(st, key, keyword)
       [] step = 3 -> LTRIM(st, key, SEARCH_HISTORY_LIMIT)
\* the three backend calls of addSearchHistory, one step each
Redis_addSearchHistoryStep(st, userName, keyword, step) ==
  LET key == Redis_shKey(userName)
  IN CASE step = 1 -> LREM(st, key, keyword)
       [] step = 2 -> LPUSH(st, key, keyword)
       [] step = 3 -> LTRIM(st, key, SEARCH_HISTORY_LIMIT - 1)
Redis_addSearchHistory(st, userName, keyword) ==
  Redis_addSearchHistoryStep(
    Redis_addSearchHistoryStep(
      Redis_addSearchHistoryStep(st, userName, keyword, 1), userName, keyword, 2),
    userName, keyword, 3)
\* keyword is a string, or "undefined" when the optional argument is left out
Redis_deleteSearchHistory(st, userName, keyword) ==
  LET key == Redis_shKey(userName)
  IN IF keyword.t = "string" /\ Truthy(keyword) THEN LREM(st, key, keyword.v) ELSE DEL(st, {key})

\* a skip-config key that leaves the user name out
Redis_skipConfigKeyNoUser(userName, key) ==
  <<"k", "a", "t", "e", "l", "y", "a", "t", "v", ":", "s", "k", "i", "p", "_",
    "c", "o", "n", "f", "i", "g", ":">> \o key
Redis_skipConfigKey(userName, key) ==
  <<"k", "a", "t", "e", "l", "y", "a", "t", "v", ":", "s", "k", "i", "p", "_",
    "c", "o", "n", "f", "i", "g", ":">> \o userName \o <<":">> \o key
Redis_skipConfigsKey(userName) ==
  <<"k", "a", "t", "e", "l", "y", "a", "t", "v", ":", "s", "k", "i", "p", "_",
    "c", "o", "n", "f", "i", "g", "s", ":">> \o userName
Redis_getSkipConfig(st, userName, key) ==
  LET data == GET(st, Redis_skipConfigKey(userName, key)) IN IF Truthy(data) THEN data ELSE Null
\* setSkipConfig without the update of the index set
Redis_setSkipConfigNoIndex(st, userName, key, config) ==
  SET(st, Redis_skipConfigKey(userName, key), Obj(config))
Redis_setSkipConfig(st, userName, key, config) ==
  SADD(SET(st, Redis_skipConfigKey(userName, key), Obj(config)), Redis_skipConfigsKey(userName), key)
\* for (const k of keys) { data = get(skipConfigKey(userName, k)); if (data) configs[k] = data }
\* every member of the index is reported, with whatever its value key holds
Redis_getAllSkipConfigsUnfiltered(st, userName) ==
  [k \in SMEMBERS(st, Redis_skipConfigsKey(userName)) |->
     GET(st, Redis_skipConfigKey(userName, k))]
Redis_getAllSkipConfigs(st, userName) ==
  LET ks == SMEMBERS(st, Redis_skipConfigsKey(userName))
  IN [k \in { m \in ks : Truthy(GET(st, Redis_skipConfigKey(userName, m))) } |->
        GET(st, Redis_skipConfigKey(userName, k))]
Redis_deleteSkipConfig(st, userName, key) ==
  SREM(DEL(st, {Redis_skipConfigKey(userName, key)}), Redis_skipConfigsKey(userName), key)

(* ------------------- the storage contract, per adapter ----------------- *)
Kinds == {"pr", "fav", "skip"}

getRecord(a, st, kind, u, k) ==
  CASE a = "kvrocks" /\ kind = "pr" -> Kvrocks_getPlayRecord(st, u, k)
    [] a = "kvrocks" /\ kind = "fav" -> Kvrocks_getFavorite(st, u, k)
    [] a = "kvrocks" /\ kind = "skip" -> Kvrocks_getSkipConfig(st, u, k)
    [] a = "redis" /\ kind = "pr" -> Redis_getPlayRecord(st, u, k)
    [] a = "redis" /\ kind = "fav" -> Redis_getFavorite(st, u, k)
    [] a = "redis" /\ kind = "skip" -> Redis_getSkipConfig(st, u, k)

setRecord(a, st, kind, u, k, r) ==
  CASE a = "kvrocks" /\ kind = "pr" -> Kvrocks_setPlayRecord(st, u, k, r)
    [] a = "kvrocks" /\ kind = "fav" -> Kvrocks_setFavorite(st, u, k, r)
    [] a = "kvrocks" /\ kind = "skip" -> Kvrocks_setSkipConfig(st, u, k, r)
    [] a = "redis" /\ kind = "pr" -> Redis_setPlayRecord(st, u, k, r)
    [] a = "redis" /\ kind = "fav" -> Redis_setFavorite(st, u, k, r)
    [] a = "redis" /\ kind = "skip" -> Redis_setSkipConfig(st, u, k, r)

deleteRecord(a, st, kind, u, k) ==
  CASE a = "kvrocks" /\ kind = "pr" -> Kvrocks_deletePlayRecord(st, u, k)
    [] a = "kvrocks" /\ kind = "fav" -> Kvrocks_deleteFavorite(st, u, k)
    [] a = "kvrocks" /\ kind = "skip" -> Kvrocks_deleteSkipConfig(st, u, k)
    [] a = "redis" /\ kind = "pr" -> Redis_deletePlayRecord(st, u, k)
    [] a = "redis" /\ kind = "fav" -> Redis_deleteFavorite(st, u, k)
    [] a = "redis" /\ kind = "skip" -> Redis_deleteSkipConfig(st, u, k)

getAllRecords(a, st, kind, u) ==
  CASE a = "kvrocks" /\ kind = "pr" -> Kvrocks_getAllPlayRecords(st, u)
    [] a = "kvrocks" /\ kind = "fav" -> Kvrocks_getAllFavorites(st, u)
    [] a = "kvrocks" /\ kind = "skip" -> Kvrocks_getAllSkipConfigs(st, u)
    [] a = "redis" /\ kind = "pr" -> Redis_getAllPlayRecords(st, u)
    [] a = "redis" /\ kind = "fav" -> Redis_getAllFavorites(st, u)
    [] a = "redis" /\ kind = "skip" -> Redis_getAllSkipConfigs(st, u)

getSearchHistory(a, st, u) ==
  IF a = "kvrocks" THEN Kvrocks_getSearchHistory(st, u) ELSE Redis_getSearchHistory(st, u)
addSearchHistoryStep(a, st, u, q, step) ==
  IF a = "kvrocks" THEN Kvrocks_addSearchHistoryStep(st, u, q, step)
  ELSE Redis_addSearchHistoryStep(st, u, q, step)
addSearchHistory(a, st, u, q) ==
  IF a = "kvrocks" THEN Kvrocks_addSearchHistory(st, u, q) ELSE Redis_addSearchHistory(st, u, q)
deleteSearchHistory(a, st, u, q) ==
  IF a = "kvrocks" THEN Kvrocks_deleteSearchHistory(st, u, q) ELSE Redis_deleteSearchHistory(st, u, q)

registerUser(a, st, u, p, now) ==
  IF a = "kvrocks" THEN Kvrocks_registerUser(st, u, p, now) ELSE Redis_registerUser(st, u, p)
verifyUser(a, st, u, p) ==
  IF a = "kvrocks" THEN Kvrocks_verifyUser(st, u, p) ELSE Redis_verifyUser(st, u, p)
checkUserExist(a, st, u) ==
  IF a = "kvrocks" THEN Kvrocks_checkUserExist(st, u) ELSE Redis_checkUserExist(st, u)
changePassword(a, st, u, p) ==
  IF a = "kvrocks" THEN Kvrocks_changePassword(st, u, p) ELSE Redis_changePassword(st, u, p)
deleteUser(a, st, u) ==
  IF a = "kvrocks" THEN Kvrocks_deleteUser(st, u) ELSE Redis_deleteUser(st, u)

getAllUsers(a, st, USERNAME, failing) ==
  IF a = "kvrocks" THEN Kvrocks_getAllUsers(st, USERNAME, failing)
  ELSE Redis_getAllUsers(st, USERNAME, failing)

getUserSettings(a, st, u) ==
  IF a = "kvrocks" THEN Kvrocks_getUserSettings(st, u) ELSE Redis_getUserSettings(st, u)
setUserSettings(a, st, u, s) ==
  IF a = "kvrocks" THEN Kvrocks_setUserSettings(st, u, s) ELSE Redis_setUserSettings(st, u, s)
updateUserSettings(a, st, u, s) ==
  IF a = "kvrocks" THEN Kvrocks_updateUserSettings(st, u, s) ELSE Redis_updateUserSettings(st, u, s)

defaultSettings(a) == IF a = "kvrocks" THEN Kvrocks_defaultSettings ELSE Redis_defaultSettings
userSettingsKey(a, u) ==
  IF a = "kvrocks" THEN Kvrocks_userSettingsKey(u) ELSE Redis_userSettingsKey(u)

(* ------------------------------ inputs --------------------------------- *)
NoSettings ==
  [filter_adult_content |-> "undefined", theme |-> "undefined", language |-> "undefined",
   auto_play |-> "undefined", video_quality |-> "undefined"]
\* the full records setUserSettings is called with
SettingsInputs ==
  { [filter_adult_content |-> "false", theme |-> "dark", language |-> "en-US",
     auto_play |-> "false", video_quality |-> "1080p"] }
\* the partial records updateUserSettings is called with
PartialInputs ==
  { [NoSettings EXCEPT !.theme = "dark"],
    [NoSettings EXCEPT !.filter_adult_content = "false", !.auto_play = "true",
                       !.language = "ja-JP"] }
\* the optional query of deleteSearchHistory
QueryArgs == { Str(q) : q \in Queries } \cup {Undefined}

Workers == {1, 2}
Idle == [op |-> "idle", user |-> <<>>, query |-> "", step |-> 0, pre |-> <<>>]

(* ------------------------------ the system ----------------------------- *)
\* the state after construction, but for the arguments of the merge
Unused ==
  /\ store = [a \in Adapters |-> EmptyStore]
  /\ pwd = [u \in Users |-> NoUser]
  /\ pc = [p \in Workers |-> Idle]
  /\ nextQ = 0
  /\ repeated = FALSE
  /\ overlapped = FALSE
  /\ used = 0
  /\ retry = [at |-> "idle", maxRetries |-> 0, i |-> 0, calls |-> 0, tried |-> <<>>,
              wait |-> 0, waits |-> <<>>, out |-> Undefined]
  /\ client = [a \in Adapters |-> Undefined]
  /\ env = [a \in Adapters |-> [url |-> Undefined, token |-> Undefined]]
  /\ built = [a \in Adapters |->
                [created |-> 0, constructions |-> 0,
                 last |-> [thrown |-> FALSE, value |-> Undefined]]]
  /\ upd = [p \in Workers |-> [op |-> "idle"]]

Init == Unused /\ merged = [op |-> "none"]

\* the model keeps at most MaxStoreKeys keys in a backend
Fits(s) == \A a \in Adapters : Cardinality(AllKeys(s[a])) <= MaxStoreKeys

Quiet == \A p \in Workers : pc[p].op = "idle"

(* calls that run from start to end with no other call in between *)
SetRecord(kind, u, k, r) ==
  /\ Quiet
  /\ store' = [a \in Adapters |-> setRecord(a, store[a], kind, u, k, r)]
  /\ Fits(store')
  /\ UNCHANGED <<pwd, pc, nextQ, repeated, overlapped, used>>
  /\ UNCHANGED others

DeleteRecord(kind, u, k) ==
  /\ Quiet
  /\ store' = [a \in Adapters |-> deleteRecord(a, store[a], kind, u, k)]
  /\ UNCHANGED <<pwd, pc, nextQ, repeated, overlapped, used>>
  /\ UNCHANGED others

AddSearchHistory(u, q) ==
  /\ Quiet
  /\ store' = [a \in Adapters |-> addSearchHistory(a, store[a], u, q)]
  /\ Fits(store')
  /\ UNCHANGED <<pwd, pc, nextQ, repeated, overlapped, used>>
  /\ UNCHANGED others

DeleteSearchHistory(u, q) ==
  /\ Quiet
  /\ store' = [a \in Adapters |-> deleteSearchHistory(a, store[a], u, q)]
  /\ UNCHANGED <<pwd, pc, nextQ, repeated, overlapped, used>>
  /\ UNCHANGED others

RegisterUser(u, p, now) ==
  /\ Quiet
  /\ store' = [a \in Adapters |-> registerUser(a, store[a], u, p, now)]
  /\ Fits(store')
  /\ pwd' = [pwd EXCEPT ![u] = p]
  /\ UNCHANGED <<pc, nextQ, repeated, overlapped, used>>
  /\ UNCHANGED others

ChangePassword(u, p) ==
  /\ Quiet
  /\ store' = [a \in Adapters |-> changePassword(a, store[a], u, p)]
  /\ Fits(store')
  /\ pwd' = [pwd EXCEPT ![u] = IF @ = NoUser THEN NoUser ELSE p]
  /\ UNCHANGED <<pc, nextQ, repeated, overlapped, used>>
  /\ UNCHANGED others

DeleteUser(u) ==
  /\ Quiet
  /\ store' = [a \in Adapters |-> deleteUser(a, store[a], u)]
  /\ pwd' = [pwd EXCEPT ![u] = NoUser]
  /\ UNCHANGED <<pc, nextQ, repeated, overlapped, used>>
  /\ UNCHANGED others

SetUserSettings(u, s) ==
  /\ Quiet
  /\ store' = [a \in Adapters |-> setUserSettings(a, store[a], u, s)]
  /\ Fits(store')
  /\ UNCHANGED <<pwd, pc, nextQ, repeated, overlapped, used>>
  /\ UNCHANGED others

UpdateUserSettings(u, s) ==
  /\ Quiet
  /\ store' = [a \in Adapters |-> updateUserSettings(a, store[a], u, s)]
  /\ Fits(store')
  /\ UNCHANGED <<pwd, pc, nextQ, repeated, overlapped, used>>
  /\ UNCHANGED others

RecordsNext ==
  \/ \E kind \in Kinds, u \in Users, k \in Keys, r \in Records : SetRecord(kind, u, k, r)
  \/ \E kind \in Kinds, u \in Users, k \in Keys : DeleteRecord(kind, u, k)

HistoryNext ==
  \/ \E u \in Users, q \in Queries : AddSearchHistory(u, q)
  \/ \E u \in Users, q \in QueryArgs : DeleteSearchHistory(u, q)

AccountsNext ==
  \/ \E u \in Users, p \in Passwords, now \in Times : RegisterUser(u, p, now)
  \/ \E u \in Users, p \in Passwords : ChangePassword(u, p)

SettingsNext ==
  \/ \E u \in Users, s \in SettingsInputs : SetUserSettings(u, s)
  \/ \E u \in Users, s \in PartialInputs : UpdateUserSettings(u, s)

CascadeNext == \E u \in Users : DeleteUser(u)

\* every operation of the contract, one call at a time
Next == RecordsNext \/ HistoryNext \/ AccountsNext \/ SettingsNext \/ CascadeNext
Spec == Init /\ [][Next]_vars

\* play records, favorites and skip configs
NextRec == RecordsNext \/ CascadeNext
SpecRec == Init /\ [][NextRec]_vars

\* accounts and settings
NextUser == AccountsNext \/ SettingsNext \/ CascadeNext
SpecUser == Init /\ [][NextUser]_vars

(* search history, one backend call per step, calls of two workers interleaved *)
\* the history list of u as adapter a stores it
HistoryOf(a, u) == getSearchHistory(a, store[a], u)
\* a run keeps to the history of one user
OnlyUser(u) ==
  /\ \A v \in Users \ {u}, a \in Adapters : HistoryOf(a, v) = <<>>
  /\ \A p \in Workers : pc[p].op = "idle" \/ pc[p].user = u
\* the queries a call may repeat: the first, second and last entry, and those in flight
RepeatCandidates(u) ==
  LET l == HistoryOf("kvrocks", u)
  IN { l[i] : i \in {1, 2, Len(l)} \cap (1..Len(l)) }
       \cup { pc[p].query : p \in { w \in Workers : pc[w].op = "add" } }
\* a call starts on the lowest idle worker
FreeWorker(p) == pc[p].op = "idle" /\ \A w \in Workers : w < p => pc[w].op # "idle"
\* a call that repeats, deletes or overlaps takes one of the MaxDisturb
Disturb(repeats) ==
  /\ overlapped' = (overlapped \/ ~Quiet)
  /\ repeated' = (repeated \/ repeats)
  /\ IF repeats \/ ~Quiet THEN used < MaxDisturb /\ used' = used + 1 ELSE used' = used

\* addSearchHistory starts: its first backend call, lrem
StartAdd(p, u, q) ==
  /\ FreeWorker(p)
  /\ OnlyUser(u)
  /\ store' = [a \in Adapters |-> addSearchHistoryStep(a, store[a], u, q, 1)]
  /\ pc' = [pc EXCEPT ![p] = [op |-> "add", user |-> u, query |-> q, step |-> 2,
                               pre |-> [a \in Adapters |-> HistoryOf(a, u)]]]
  /\ UNCHANGED pwd
  /\ UNCHANGED others

AddFresh(p, u) ==
  /\ nextQ < NumFreshQueries
  /\ StartAdd(p, u, QueryNames[nextQ + 1])
  /\ Disturb(FALSE)
  /\ nextQ' = nextQ + 1

AddAgain(p, u, q) ==
  /\ used < MaxDisturb
  /\ q \in RepeatCandidates(u)
  /\ StartAdd(p, u, q)
  /\ Disturb(TRUE)
  /\ UNCHANGED nextQ

\* the next backend call of the call in flight on worker p: lpush, then ltrim
StepAdd(p) ==
  /\ pc[p].op = "add"
  /\ store' = [a \in Adapters |->
                addSearchHistoryStep(a, store[a], pc[p].user, pc[p].query, pc[p].step)]
  /\ pc' = [pc EXCEPT ![p] = IF pc[p].step = 3 THEN Idle ELSE [@ EXCEPT !.step = 3]]
  /\ UNCHANGED <<pwd, nextQ, repeated, overlapped, used>>
  /\ UNCHANGED others

\* deleteSearchHistory: one backend call
ClearHistory(u, q) ==
  /\ used < MaxDisturb
  /\ OnlyUser(u)
  /\ q.t = "string" => q.v \in RepeatCandidates(u)
  /\ Disturb(TRUE)
  /\ store' = [a \in Adapters |-> deleteSearchHistory(a, store[a], u, q)]
  /\ UNCHANGED <<pwd, pc, nextQ>>
  /\ UNCHANGED others

NextSH ==
  \/ \E p \in Workers, u \in Users : AddFresh(p, u)
  \/ \E p \in Workers, u \in Users : \E q \in RepeatCandidates(u) : AddAgain(p, u, q)
  \/ \E p \in Workers : StepAdd(p)
  \/ \E u \in Users : \E q \in { Str(c) : c \in RepeatCandidates(u) } \cup {Undefined} :
       ClearHistory(u, q)
SpecSH == Init /\ [][NextSH]_vars

(* ------------------ accounts and their creation times ------------------ *)
\* the creation time of a registered user is stored as v, or removed: by setUser in
\* KvrocksStorage, under the key getAllUsers reads it from in RedisStorage
WriteCreatedAt(u, v) ==
  /\ Quiet
  /\ pwd[u] # NoUser
  /\ store' =
       [a \in Adapters |->
          IF a = "kvrocks"
            THEN Kvrocks_setUser(store[a], u,
                   Obj(IF v.t = "undefined"
                         THEN [username |-> u, password |-> Str(pwd[u])]
                       ELSE [username |-> u, password |-> Str(pwd[u]), created_at |-> v]))
          ELSE IF v.t = "undefined" THEN DEL(store[a], {Redis_createdAtKey(u)})
          ELSE SET(store[a], Redis_createdAtKey(u), v)]
  /\ Fits(store')
  /\ UNCHANGED <<pwd, pc, nextQ, repeated, overlapped, used>>
  /\ UNCHANGED others

NextList ==
  \/ AccountsNext
  \/ CascadeNext
  \/ \E u \in Users, v \in {Undefined, Str("abc")} \cup { Num(t) : t \in Times } :
       WriteCreatedAt(u, v)
SpecList == Init /\ [][NextList]_vars

(* ---- updateUserSettings, one backend call per step, calls interleaved --- *)
\* const current = await this.getUserSettings(userName)
ReadSettings(p, u, s) ==
  /\ upd[p].op \in {"idle", "done"}
  /\ upd' = [upd EXCEPT ![p] =
               [op |-> "update", user |-> u, partial |-> s,
                current |-> [a \in Adapters |-> getUserSettings(a, store[a], u)]]]
  /\ UNCHANGED <<storage, merged, retry, client, env, built>>

\* the merge is done over what the backend holds at the time of the write
WriteSettingsReread(p) ==
  /\ upd[p].op = "update"
  /\ store' = [a \in Adapters |-> updateUserSettings(a, store[a], upd[p].user, upd[p].partial)]
  /\ Fits(store')
  /\ upd' = [upd EXCEPT ![p].op = "done"]
  /\ UNCHANGED <<pwd, pc, nextQ, repeated, overlapped, used, merged, retry, client, env, built>>
\* updated = mergeUserSettings(defaultSettings, current ?? undefined, settings);
\* await this.setUserSettings(userName, updated).  The finished call is kept as history
WriteSettings(p) ==
  /\ upd[p].op = "update"
  /\ store' =
       [a \in Adapters |->
          LET current == upd[p].current[a]
              updated == mergeUserSettings(defaultSettings(a),
                           IF current.t = "null" THEN Undefined ELSE current, upd[p].partial)
          IN setUserSettings(a, store[a], upd[p].user, updated)]
  /\ Fits(store')
  /\ upd' = [upd EXCEPT ![p].op = "done"]
  /\ UNCHANGED <<pwd, pc, nextQ, repeated, overlapped, used, merged, retry, client, env, built>>

NextUpd ==
  \/ \E p \in Workers, u \in Users, s \in PartialInputs : ReadSettings(p, u, s)
  \/ \E p \in Workers : WriteSettings(p)
SpecUpd == Init /\ [][NextUpd]_vars

(* -- setSkipConfig and deleteSkipConfig, one backend call per step, interleaved -- *)
\* the call starts with its backend call on the value: set or del (in KvrocksStorage its
\* only backend call).  call is "set" or "delete"; c is the config to set, Null for a delete
SkipValueStep(p, call, u, k, c) ==
  /\ upd[p].op \in {"idle", "done", "stopped"}
  /\ store' =
       [a \in Adapters |->
          IF a = "kvrocks"
            THEN IF call = "set" THEN Kvrocks_setSkipConfig(store[a], u, k, c)
                 ELSE Kvrocks_deleteSkipConfig(store[a], u, k)
          ELSE IF call = "set" THEN SET(store[a], Redis_skipConfigKey(u, k), Obj(c))
          ELSE DEL(store[a], {Redis_skipConfigKey(u, k)})]
  /\ Fits(store')
  /\ Fits([store' EXCEPT !["redis"] = SADD(@, Redis_skipConfigsKey(u), k)])
  /\ upd' =
       [w \in Workers |->
          IF w = p
            THEN [op |-> "index", call |-> call, user |-> u, key |-> k, config |-> c,
                  alone |-> \A x \in Workers \ {p} : upd[x].op # "index"]
          ELSE IF upd[w].op = "index" THEN [upd[w] EXCEPT !.alone = FALSE]
          ELSE upd[w]]
  /\ UNCHANGED <<pwd, pc, nextQ, repeated, overlapped, used, merged, retry, client, env, built>>

\* the second backend call of RedisStorage, on the index set: sadd or srem
SkipIndexStep(p) ==
  /\ upd[p].op = "index"
  /\ store' =
       [store EXCEPT !["redis"] =
          IF upd[p].call = "set" THEN SADD(@, Redis_skipConfigsKey(upd[p].user), upd[p].key)
          ELSE SREM(@, Redis_skipConfigsKey(upd[p].user), upd[p].key)]
  /\ Fits(store')
  /\ upd' = [upd EXCEPT ![p].op = "done"]
  /\ UNCHANGED <<pwd, pc, nextQ, repeated, overlapped, used, merged, retry, client, env, built>>

\* the call stops between its two backend calls: the process dies or the call fails for good
SkipStop(p) ==
  /\ upd[p].op = "index"
  /\ upd' = [upd EXCEPT ![p].op = "stopped"]
  /\ UNCHANGED <<storage, merged, retry, client, env, built>>

\* the user whose skip configs the interleaved calls work on
SkipUsers == { <<"b", "o", "b">> }
NextSkip ==
  \/ \E p \in Workers, u \in SkipUsers, k \in Keys, c \in Records :
       SkipValueStep(p, "set", u, k, c)
  \/ \E p \in Workers, u \in SkipUsers, k \in Keys :
       SkipValueStep(p, "delete", u, k, Null)
  \/ \E p \in Workers : SkipIndexStep(p)
  \/ \E p \in Workers : SkipStop(p)
SpecSkip == Init /\ [][NextSkip]_vars

(* ------ changePassword, its read and its write as separate steps ------ *)
\* changePassword(u, newPassword) starts on a registered account; KvrocksStorage reads the
\* account: const userData = await this.getUser(userName)
PasswordRead(p, u, newPassword) ==
  /\ upd[p].op \in {"idle", "done"}
  /\ pwd[u] # NoUser
  /\ upd' = [upd EXCEPT ![p] = [op |-> "changePassword", user |-> u, password |-> newPassword,
                                userData |-> Kvrocks_getUser(store["kvrocks"], u)]]
  /\ UNCHANGED <<storage, merged, retry, client, env, built>>

\* the call writes and returns: KvrocksStorage sets the account it read with the new
\* password, if it read one; RedisStorage sets the password key
PasswordWrite(p) ==
  /\ upd[p].op = "changePassword"
  /\ store' =
       [a \in Adapters |->
          IF a = "kvrocks"
            THEN IF Truthy(upd[p].userData)
                   THEN Kvrocks_setUser(store[a], upd[p].user,
                          Obj([upd[p].userData.v EXCEPT !.password = Str(upd[p].password)]))
                 ELSE store[a]
          ELSE Redis_changePassword(store[a], upd[p].user, upd[p].password)]
  /\ Fits(store')
  /\ pwd' = [pwd EXCEPT ![upd[p].user] = IF @ = NoUser THEN NoUser ELSE upd[p].password]
  /\ upd' = [upd EXCEPT ![p].op = "done"]
  /\ UNCHANGED <<pc, nextQ, repeated, overlapped, used, merged, retry, client, env, built>>

NextPwd ==
  \/ \E u \in Users, pw \in Passwords, now \in Times : RegisterUser(u, pw, now)
  \/ \E u \in Users : DeleteUser(u)
  \/ \E p \in Workers, u \in Users, pw \in Passwords : PasswordRead(p, u, pw)
  \/ \E p \in Workers : PasswordWrite(p)
SpecPwd == Init /\ [][NextPwd]_vars

(* ------------- content keys that contain the key separator ------------- *)
\* content keys as arbitrary non-empty strings: "ep1", "x:pwd", "fav:x"
WideKeys == { <<"e", "p", "1">>, <<"x", ":", "p", "w", "d">>, <<"f", "a", "v", ":", "x">> }
NextKeys ==
  \/ \E kind \in Kinds, u \in Users, k \in WideKeys, r \in Records : SetRecord(kind, u, k, r)
  \/ \E kind \in Kinds, u \in Users, k \in WideKeys : DeleteRecord(kind, u, k)
  \/ \E u \in Users, pw \in Passwords, now \in Times : RegisterUser(u, pw, now)
  \/ \E u \in Users : DeleteUser(u)
SpecKeys == Init /\ [][NextKeys]_vars

(* ------------------------------ withRetry ------------------------------ *)
\* the default of maxRetries
DefaultMaxRetries == 3

\* the errors an attempt fails with: connection errors as the contract lists them (a message
\* with 'Connection', 'ECONNREFUSED' or 'ENOTFOUND', a code ECONNRESET or EPIPE), and others
Errors ==
  [connection |->
     { [message |-> Str(<<"C", "o", "n", "n", "e", "c", "t", "i", "o", "n", " ", "c", "l", "o", "s", "e", "d">>),
        code |-> "undefined"],
       [message |-> Str(<<"c", "o", "n", "n", "e", "c", "t", " ", "E", "C", "O", "N", "N", "R", "E", "F", "U", "S", "E", "D">>),
        code |-> "ECONNREFUSED"],
       [message |-> Str(<<"g", "e", "t", "a", "d", "d", "r", "i", "n", "f", "o", " ", "E", "N", "O", "T", "F", "O", "U", "N", "D">>),
        code |-> "ENOTFOUND"],
       [message |-> Str(<<"r", "e", "a", "d">>),
        code |-> "ECONNRESET"],
       [message |-> Undefined,
        code |-> "EPIPE"] },
   other |->
     { [message |-> Str(<<"W", "R", "O", "N", "G", "T", "Y", "P", "E">>),
        code |-> "undefined"],
       [message |-> Str(<<"c", "o", "n", "n", "e", "c", "t", "i", "o", "n", " ", "t", "i", "m", "e", "o", "u", "t">>),
        code |-> "ETIMEDOUT"],
       [message |-> Undefined,
        code |-> "undefined"] }]

\* a timeout counts as a connection error too
isConnectionErrorAnyCase(err) ==
  \/ err \in Errors.connection
  \/ err.code = "ETIMEDOUT"
isConnectionError(err) ==
  LET includes(pat) ==
        /\ err.message.t = "string"
        /\ \E k \in 1..(Len(err.message.v) - Len(pat) + 1) :
             SubSeq(err.message.v, k, k + Len(pat) - 1) = pat
  IN \/ includes(<<"C", "o", "n", "n", "e", "c", "t", "i", "o", "n">>)
     \/ includes(<<"E", "C", "O", "N", "N", "R", "E", "F", "U", "S", "E", "D">>)
     \/ includes(<<"E", "N", "O", "T", "F", "O", "U", "N", "D">>)
     \/ err.code = "ECONNRESET"
     \/ err.code = "EPIPE"

\* for (let i = 0; i < maxRetries; i++): the loop test, and the throw after the loop
RetryLoop(r) ==
  IF r.i < r.maxRetries THEN [r EXCEPT !.at = "try"]
  ELSE [r EXCEPT !.at = "thrown",
                 !.out = [message |-> Str(<<"M", "a", "x", " ", "r", "e", "t", "r", "i", "e", "s", " ", "e", "x", "c", "e", "e", "d", "e", "d">>),
                          code |-> "undefined"]]

\* withRetry(operation, maxRetries) is called
RetryCall(maxRetries) ==
  /\ retry.at \in {"idle", "returned", "thrown"}
  /\ retry' = RetryLoop([at |-> "try", maxRetries |-> maxRetries, i |-> 0, calls |-> 0,
                         tried |-> <<>>, wait |-> 0, waits |-> <<>>, out |-> Undefined])
  /\ UNCHANGED <<storage, merged, client, env, built, upd>>

\* the wait is 1000 ms whatever the attempt
RetryAttemptNoBackoff(outcome) ==
  /\ retry.at = "try"
  /\ LET r == [retry EXCEPT !.calls = @ + 1, !.tried = Append(@, outcome)]
     IN retry' =
          IF outcome.ok THEN [r EXCEPT !.at = "returned", !.out = outcome.value]
          ELSE IF isConnectionError(outcome.err) /\ ~(r.i = r.maxRetries - 1)
            THEN [r EXCEPT !.at = "wait", !.wait = 1000]
          ELSE [r EXCEPT !.at = "thrown", !.out = outcome.err]
  /\ UNCHANGED <<storage, merged, client, env, built, upd>>
\* return await operation(): the attempt settles, with a value or with an error
RetryAttempt(outcome) ==
  /\ retry.at = "try"
  /\ LET r == [retry EXCEPT !.calls = @ + 1, !.tried = Append(@, outcome)]
         isLastAttempt == r.i = r.maxRetries - 1
     IN retry' =
          IF outcome.ok THEN [r EXCEPT !.at = "returned", !.out = outcome.value]
          ELSE IF isConnectionError(outcome.err) /\ ~isLastAttempt
            THEN [r EXCEPT !.at = "wait", !.wait = 1000 * (r.i + 1)]
          ELSE [r EXCEPT !.at = "thrown", !.out = outcome.err]
  /\ UNCHANGED <<storage, merged, client, env, built, upd>>

\* the timer of setTimeout fires: continue
RetryWait ==
  /\ retry.at = "wait"
  /\ retry' = RetryLoop([retry EXCEPT !.waits = Append(@, retry.wait), !.wait = 0, !.i = @ + 1])
  /\ UNCHANGED <<storage, merged, client, env, built, upd>>

NextRetry ==
  \/ \E maxRetries \in 0..(DefaultMaxRetries + 1) : RetryCall(maxRetries)
  \/ \E outcome \in { [ok |-> TRUE, value |-> v, err |-> Undefined] : v \in {Null, Str("OK")} }
                      \cup { [ok |-> FALSE, value |-> Undefined, err |-> e] :
                               e \in Errors.connection \cup Errors.other } :
       RetryAttempt(outcome)
  \/ RetryWait
\* an attempt settles and a timer fires
SpecRetry ==
  /\ Init /\ [][NextRetry]_vars
  /\ WF_vars(\E outcome \in { [ok |-> FALSE, value |-> Undefined, err |-> e] :
                                e \in Errors.connection \cup Errors.other } :
               RetryAttempt(outcome))
  /\ WF_vars(RetryWait)

(* ----------------------- the connection singleton ---------------------- *)
\* a handle is made on every call and never kept under the global key
Kvrocks_getUpstashKvrocksNoCache(cached, e, serial) ==
  IF ~Truthy(e.url) \/ ~Truthy(e.token)
    THEN [client |-> cached, made |-> FALSE, thrown |-> TRUE, value |-> Str("configuration")]
  ELSE [client |-> cached, made |-> TRUE, thrown |-> FALSE,
        value |-> Obj([url |-> e.url.v, token |-> e.token.v, serial |-> serial])]
\* cached: the value under the global key; e: KVROCKS_URL and KVROCKS_TOKEN; serial tells the
\* handles new Redis() makes apart.  client: the value under the global key afterwards
Kvrocks_getUpstashKvrocks(cached, e, serial) ==
  IF ~Truthy(cached)
    THEN IF ~Truthy(e.url) \/ ~Truthy(e.token)
           THEN [client |-> cached, made |-> FALSE, thrown |-> TRUE, value |-> Str("configuration")]
         ELSE LET made == Obj([url |-> e.url.v, token |-> e.token.v, serial |-> serial])
              IN [client |-> made, made |-> TRUE, thrown |-> FALSE, value |-> made]
  ELSE [client |-> cached, made |-> FALSE, thrown |-> FALSE, value |-> cached]
\* the same with REDIS_URL and REDIS_TOKEN
Redis_getUpstashRedis(cached, e, serial) ==
  IF ~Truthy(cached)
    THEN IF ~Truthy(e.url) \/ ~Truthy(e.token)
           THEN [client |-> cached, made |-> FALSE, thrown |-> TRUE, value |-> Str("configuration")]
         ELSE LET made == Obj([url |-> e.url.v, token |-> e.token.v, serial |-> serial])
              IN [client |-> made, made |-> TRUE, thrown |-> FALSE, value |-> made]
  ELSE [client |-> cached, made |-> FALSE, thrown |-> FALSE, value |-> cached]

\* new KvrocksStorage() / new RedisStorage(): this.client = getUpstash...()
Construct(a) ==
  /\ built[a].constructions < MaxConstructions
  /\ LET got == IF a = "kvrocks"
                  THEN Kvrocks_getUpstashKvrocks(client[a], env[a], built[a].created + 1)
                  ELSE Redis_getUpstashRedis(client[a], env[a], built[a].created + 1)
     IN /\ client' = [client EXCEPT ![a] = got.client]
        /\ built' = [built EXCEPT ![a] =
                       [created |-> IF got.made THEN @.created + 1 ELSE @.created,
                        constructions |-> @.constructions + 1,
                        last |-> [thrown |-> got.thrown, value |-> got.value]]]
  /\ UNCHANGED <<storage, merged, retry, env, upd>>

\* the environment of the process changes
SetEnv(a, url, token) ==
  /\ env[a] # [url |-> url, token |-> token]
  /\ env' = [env EXCEPT ![a] = [url |-> url, token |-> token]]
  /\ UNCHANGED <<storage, merged, retry, client, built, upd>>

NextConn ==
  \/ \E a \in Adapters : Construct(a)
  \/ \E a \in Adapters :
       \E url \in {Undefined, Str(""), Str("https://kv-1"), Str("https://kv-2")},
          token \in {Undefined, Str("secret")} :
         SetEnv(a, url, token)
SpecConn == Init /\ [][NextConn]_vars

(* mergeUserSettings on its own: the arguments are drawn, the call applies it *)
\* the arguments: the defaults of either adapter; current null, undefined or a record, and
\* partial, with each field undefined or a value of its type
InitMerge ==
  /\ Unused
  /\ LET Choices(theme, language, quality) ==
           [filter_adult_content : {"undefined", "true", "false"}, theme : {"undefined", theme},
            language : {"undefined", language}, auto_play : {"undefined", "true", "false"},
            video_quality : {"undefined", quality}]
     IN merged \in
          [op : {"args"},
           defaults : {Kvrocks_defaultSettings, Redis_defaultSettings},
           current : {Null, Undefined}
                       \cup { Obj(r) : r \in Choices("light", "en-US", "720p") },
           partial : Choices("dark", "ja-JP", "1080p")]
MergeCall ==
  /\ merged.op = "args"
  /\ merged' = [op |-> "done", defaults |-> merged.defaults, current |-> merged.current,
                partial |-> merged.partial,
                out |-> mergeUserSettings(merged.defaults, merged.current, merged.partial)]
  /\ UNCHANGED <<storage, retry, client, env, built, upd>>
SpecMerge == InitMerge /\ [][MergeCall]_vars

(* ============================== properties ============================= *)
\* the same JSON value
Equivalent(x, y) == x.t = y.t /\ x.v = y.v

NoDuplicate(l) == \A i, j \in 1..Len(l) : i # j => l[i] # l[j]
Elements(l) == { l[i] : i \in 1..Len(l) }
Remove(l, q) == SelectSeq(l, LAMBDA x : x # q)

(* C1: in both adapters and for play records, favorites and skip configs:   *)
(* a get of a pair never written returns null; the step that completes      *)
(* set(u,k,r) makes get(u,k) return r; the step that completes delete(u,k)  *)
(* makes it return null; and every step that is no set or delete on (u,k)   *)
(* and no deleteUser(u) leaves what get(u,k) returns unchanged.             *)
C1_Step(kind, u, k) ==
  /\ \A r \in Records :
       SetRecord(kind, u, k, r) =>
         \A a \in Adapters : Equivalent(getRecord(a, store'[a], kind, u, k), Obj(r))
  /\ DeleteRecord(kind, u, k) =>
       \A a \in Adapters : getRecord(a, store'[a], kind, u, k).t = "null"
  /\ ( /\ \E a \in Adapters :
            ~Equivalent(getRecord(a, store'[a], kind, u, k), getRecord(a, store[a], kind, u, k))
       /\ ~ DeleteRecord(kind, u, k)
       /\ ~ DeleteUser(u) )
       => \E r \in Records : SetRecord(kind, u, k, r)
C1_SetGetDelete ==
  /\ \A a \in Adapters, kind \in Kinds, u \in Users, k \in Keys :
       getRecord(a, store[a], kind, u, k).t = "null"
  /\ [][\A kind \in Kinds, u \in Users, k \in Keys : C1_Step(kind, u, k)]_vars
\* a skip config and a play record of one user are stored and read back, in both adapters
C1_Witness ==
  \E u \in Users, k1, k2 \in Keys, r1, r2 \in Records :
    /\ r1 # r2
    /\ \A a \in Adapters :
         /\ Equivalent(getRecord(a, store[a], "skip", u, k1), Obj(r1))
         /\ Equivalent(getRecord(a, store[a], "pr", u, k2), Obj(r2))
         /\ getRecord(a, store[a], "fav", u, k1).t = "null"

\* what the getAll* and getSearchHistory calls return for u is empty
Emptied(a, st, u) ==
  /\ \A kind \in Kinds : DOMAIN getAllRecords(a, st, kind, u) = {}
  /\ getSearchHistory(a, st, u) = <<>>

(* C2: in both adapters, the step that completes deleteUser(u) leaves       *)
(* getAllPlayRecords(u), getAllFavorites(u) and getAllSkipConfigs(u) empty   *)
(* mappings and getSearchHistory(u) an empty sequence.                      *)
C2_CascadeEmpties ==
  [][\A u \in Users : DeleteUser(u) => \A a \in Adapters : Emptied(a, store'[a], u)]_vars

\* the backend keys the key scheme of adapter a derives from user u
DerivedPatterns(a, u) ==
  IF a = "kvrocks"
    THEN { <<"u", ":">> \o u \o <<":", "*">>, Kvrocks_userKey(u) }
  ELSE { <<"u", ":">> \o u \o <<":", "*">>, Redis_skipConfigKey(u, <<"*">>), Redis_skipConfigsKey(u) }
KeysOf(a, st, u) == { k \in AllKeys(st) : \E pat \in DerivedPatterns(a, u) : GlobMatch(pat, k) }

(* C3: in both adapters, the step that completes deleteUser(u) leaves no    *)
(* backend key derived from u: checkUserExist(u) is false, the settings key, *)
(* the creation-timestamp key, every skip-config value (getSkipConfig(u,k)  *)
(* is null for all k) and the skip-config index set are gone.               *)
C3_NoKeyOutlasts ==
  [][\A u \in Users : DeleteUser(u) =>
       \A a \in Adapters :
         /\ Equivalent(checkUserExist(a, store'[a], u), Bool(FALSE))
         /\ \A k \in Keys : getRecord(a, store'[a], "skip", u, k).t = "null"
         /\ Redis_createdAtKey(u) \notin AllKeys(store'[a])
         /\ KeysOf(a, store'[a], u) = {}]_vars

HistoryWithin(a, u, n) == Len(HistoryOf(a, u)) <= n /\ NoDuplicate(HistoryOf(a, u))

C5_MoveToFront ==
  [][\A p \in Workers :
       ( /\ pc[p].op = "add" /\ pc[p].step = 3 /\ pc'[p].op = "idle"
         /\ ~overlapped )
       => \A a \in Adapters :
            pc[p].query \in Elements(pc[p].pre[a]) =>
              getSearchHistory(a, store'[a], pc[p].user)
                = <<pc[p].query>> \o Remove(pc[p].pre[a], pc[p].query)]_vars
\* an entry that is not the newest query stands at the front of an undiminished list
C5_Witness ==
  /\ Quiet /\ ~overlapped /\ repeated /\ nextQ >= 3 /\ nextQ <= SEARCH_HISTORY_LIMIT
  /\ \E u \in Users : \A a \in Adapters :
       /\ Len(HistoryOf(a, u)) = nextQ
       /\ HistoryOf(a, u)[1] # QueryNames[nextQ]

\* the n-th to the (n-19)-th query, newest first
MostRecent(n) ==
  [i \in 1..Min(n, SEARCH_HISTORY_LIMIT) |-> QueryNames[n - i + 1]]

(* C6: in both adapters, after n > 20 pairwise distinct queries were added  *)
(* one after the other to an empty history, getSearchHistory returns        *)
(* exactly the 20 most recent ones, newest first.                           *)
C6_KeepsMostRecent ==
  (Quiet /\ ~repeated /\ ~overlapped /\ nextQ > SEARCH_HISTORY_LIMIT) =>
    \E u \in Users :
      \A a \in Adapters :
        /\ HistoryOf(a, u) = MostRecent(nextQ)
        /\ \A v \in Users \ {u} : HistoryOf(a, v) = <<>>
\* 22 distinct queries were added one after the other
C6_Witness ==
  Quiet /\ ~repeated /\ ~overlapped /\ nextQ >= SEARCH_HISTORY_LIMIT + 2

(* C7: in both adapters, with calls that do not overlap, getAllSkipConfigs(u) *)
(* is the mapping of exactly the keys k for which getSkipConfig(u,k) is not  *)
(* null, each to the value getSkipConfig(u,k) returns.                      *)
C7_EnumerationExact ==
  \A a \in Adapters, u \in Users :
    LET all == getAllRecords(a, store[a], "skip", u)
    IN /\ DOMAIN all = { k \in Keys : getRecord(a, store[a], "skip", u, k).t # "null" }
       /\ \A k \in DOMAIN all : Equivalent(all[k], getRecord(a, store[a], "skip", u, k))
\* one user has two skip configs enumerated, in both adapters
C7_Witness ==
  \E u \in Users : \A a \in Adapters :
    Cardinality(DOMAIN getAllRecords(a, store[a], "skip", u)) = 2

(* C8: in both adapters, once u is registered, verifyUser(u,q) returns true *)
(* exactly when q is the password most recently set by registerUser or     *)
(* changePassword, for every password string, the empty string included.    *)
C8_VerifyLatestPassword ==
  \A a \in Adapters, u \in Users :
    pwd[u] # NoUser =>
      \A q \in Passwords : Equivalent(verifyUser(a, store[a], u, q), Bool(q = pwd[u]))

(* C9: in both adapters, verifyUser(u,p) always returns a boolean, and      *)
(* false when u was never registered or was deleted.                        *)
C9_VerifyReturnsBoolean ==
  \A a \in Adapters, u \in Users, q \in Passwords :
    /\ verifyUser(a, store[a], u, q).t = "boolean"
    /\ (pwd[u] = NoUser /\ Equivalent(checkUserExist(a, store[a], u), Bool(FALSE)))
         => Equivalent(verifyUser(a, store[a], u, q), Bool(FALSE))

(* C10: in both adapters, getUserSettings(u) always returns a record with   *)
(* all five fields populated, and the adapter's full default record when    *)
(* nothing is stored for u.                                                 *)
C10_SettingsPopulated ==
  \A a \in Adapters, u \in Users :
    LET s == getUserSettings(a, store[a], u)
    IN /\ s.t = "object"
       /\ \A f \in SettingsFields : ~Nullish(s.v[f])
       /\ userSettingsKey(a, u) \notin AllKeys(store[a]) => s.v = defaultSettings(a)

\* the precedence of the merge, field by field: partial, then current, then defaults
Resolved(defaults, current, partial) ==
  [f \in SettingsFields |->
     IF partial[f] # "undefined" THEN partial[f]
     ELSE IF current.t = "object" /\ current.v[f] # "undefined" THEN current.v[f]
     ELSE defaults[f]]
\* the settings record stored for u in the backend of adapter a, null when there is none
StoredSettings(a, st, u) == GET(st, userSettingsKey(a, u))

(* C11: in both adapters, the step that completes updateUserSettings(u,     *)
(* partial) writes, when nothing was stored for u, the adapter's default     *)
(* record overridden by the fields partial defines, and when a record S was *)
(* stored, S overridden by the fields partial defines.                      *)
C11_UpdateWrites ==
  [][\A u \in Users, s \in PartialInputs :
       UpdateUserSettings(u, s) =>
         \A a \in Adapters :
           LET S == StoredSettings(a, store[a], u)
               written == StoredSettings(a, store'[a], u)
           IN /\ written.t = "object"
              /\ \A f \in SettingsFields :
                   written.v[f] = IF s[f] # "undefined" THEN s[f]
                                  ELSE IF S.t = "object" THEN S.v[f]
                                  ELSE defaultSettings(a)[f]]_vars
\* one user has the defaults but for the theme, another a stored record with two fields changed
C11_Witness ==
  \E u, v \in Users, S \in SettingsInputs :
    \A a \in Adapters :
      /\ Equivalent(StoredSettings(a, store[a], u), Obj([defaultSettings(a) EXCEPT !.theme = "dark"]))
      /\ Equivalent(StoredSettings(a, store[a], v),
                    Obj([S EXCEPT !.auto_play = "true", !.language = "ja-JP"]))
      /\ S.auto_play = "false" /\ S.language # "ja-JP"

(* C12: mergeUserSettings(defaults, current, partial) returns, for each of  *)
(* the five fields on its own, partial's value if partial defines it, else  *)
(* current's if current is a record that defines it, else the default; no   *)
(* field of the result is undefined.                                        *)
C12_MergePrecedence ==
  merged.op = "done" =>
    /\ merged.out = Resolved(merged.defaults, merged.current, merged.partial)
    /\ \A f \in SettingsFields : merged.out[f] # "undefined"
\* false from partial wins over true from current, current wins over the default, the
\* default fills a field neither defines
C12_Witness ==
  /\ merged.op = "done"
  /\ merged.current.t = "object"
  /\ merged.partial.auto_play = "false" /\ merged.current.v.auto_play = "true"
  /\ merged.partial.theme = "undefined" /\ merged.current.v.theme = "light"
  /\ merged.partial.language = "undefined" /\ merged.current.v.language = "undefined"
  /\ merged.out.auto_play = "false" /\ merged.out.theme = "light"
  /\ merged.out.language = merged.defaults.language

(* C13: after the same setUserSettings and updateUserSettings calls for a   *)
(* user, starting with nothing stored, KvrocksStorage and RedisStorage      *)
(* store the same record and return the same record from getUserSettings.   *)
C13_SameSettings ==
  \A u \in Users :
    /\ Equivalent(StoredSettings("kvrocks", store["kvrocks"], u),
                  StoredSettings("redis", store["redis"], u))
    /\ Equivalent(getUserSettings("kvrocks", store["kvrocks"], u),
                  getUserSettings("redis", store["redis"], u))

(* C14: after the same registerUser, changePassword and deleteUser calls,   *)
(* also with changePassword for a name that is not registered, the two      *)
(* adapters return the same result from checkUserExist(u) and from          *)
(* verifyUser(u,p), for every user name and password.                       *)
C14_SameAccountResults ==
  \A u \in Users :
    /\ Equivalent(checkUserExist("kvrocks", store["kvrocks"], u),
                  checkUserExist("redis", store["redis"], u))
    /\ \A p \in Passwords :
         Equivalent(verifyUser("kvrocks", store["kvrocks"], u, p),
                    verifyUser("redis", store["redis"], u, p))

\* the attempt failed with a transient connection error, as the contract lists them
Transient(outcome) == ~outcome.ok /\ outcome.err \in Errors.connection
\* what holds of a withRetry call at every moment
RetryWithinContract ==
  /\ retry.calls <= retry.maxRetries
  /\ retry.calls = Len(retry.tried)
  /\ \A k \in 1..retry.calls :
       (k < retry.calls \/ retry.at \in {"try", "wait"}) =>
         Transient(retry.tried[k]) /\ k < retry.maxRetries
  /\ (retry.at = "thrown" /\ retry.calls > 0) =>
       /\ ~retry.tried[retry.calls].ok
       /\ retry.out = retry.tried[retry.calls].err
       /\ ~Transient(retry.tried[retry.calls]) \/ retry.calls = retry.maxRetries
       /\ Len(retry.waits) = retry.calls - 1
       /\ retry.wait = 0

(* C16: withRetry(op, maxRetries) invokes op at most maxRetries times and   *)
(* always ends; it invokes op again only after an attempt failed with a     *)
(* transient connection error while attempts remain; on any other failure,  *)
(* or a transient one on the last attempt, it throws that attempt's error   *)
(* with no further invocation and no wait.                                  *)
C16_RetryBounded ==
  /\ []RetryWithinContract
  /\ (retry.at \in {"try", "wait"}) ~> (retry.at \in {"returned", "thrown"})
\* three attempts under the default cap, all failed with a transient error: the third is thrown
C16_Witness ==
  /\ retry.at = "thrown" /\ retry.maxRetries = DefaultMaxRetries
  /\ retry.calls = DefaultMaxRetries
  /\ Transient(retry.tried[retry.calls])
  /\ retry.out = retry.tried[retry.calls].err

RECURSIVE Sum(_)
Sum(l) == IF l = <<>> THEN 0 ELSE Head(l) + Sum(Tail(l))

Absent(v) == v.t = "undefined" \/ Equivalent(v, Str(""))

(* C18: for each backend the connection client is built at most once; once  *)
(* one is cached every construction gets that same handle, whatever the     *)
(* configuration has become; a construction with no client cached and the   *)
(* URL or the token absent fails with a configuration error and caches      *)
(* nothing; one with no client cached and both present succeeds.            *)
C18_ClientBuiltOnce ==
  /\ [](\A a \in Adapters : built[a].created <= 1 /\ (built[a].created = 1 <=> Truthy(client[a])))
  /\ [][\A a \in Adapters :
          Construct(a) =>
            IF Truthy(client[a])
              THEN /\ client'[a] = client[a]
                   /\ built'[a].last = [thrown |-> FALSE, value |-> client[a]]
            ELSE IF Absent(env[a].url) \/ Absent(env[a].token)
              THEN /\ built'[a].last = [thrown |-> TRUE, value |-> Str("configuration")]
                   /\ ~Truthy(client'[a])
            ELSE /\ ~built'[a].last.thrown
                 /\ built'[a].last.value = client'[a]
                 /\ Truthy(client'[a])
                 /\ client'[a].v.url = env[a].url.v /\ client'[a].v.token = env[a].token.v]_vars
\* a construction failed, one succeeded, the URL went away, and one more got the cached handle
C18_Witness ==
  \E a \in Adapters :
    /\ built[a].constructions >= 3 /\ built[a].created = 1
    /\ Absent(env[a].url)
    /\ ~built[a].last.thrown /\ built[a].last.value = client[a]

\* the values of process.env.USERNAME
OwnerNames == {Undefined, Str(<<>>), Str(<<"a", "d", "m", "i", "n">>), Str(<<"b", "o", "b">>), Str(<<"c", "a", "r", "o", "l">>)}
\* the configured owner name: USERNAME, 'admin' when it is not set
OwnerName(USERNAME) == IF USERNAME.t = "undefined" \/ USERNAME.v = <<>> THEN <<"a", "d", "m", "i", "n">> ELSE USERNAME.v

(* C15: in both adapters, after any registerUser, changePassword and        *)
(* deleteUser calls, getAllUsers has one entry per registered user name and *)
(* none twice; the entry of the configured owner name (USERNAME, 'admin' by *)
(* default) has role 'owner' if that name is registered, all others 'user'. *)
C15_UsersAndOwner ==
  \A a \in Adapters, USERNAME \in OwnerNames :
    LET all == getAllUsers(a, store[a], USERNAME, {})
    IN /\ { all[x].username : x \in DOMAIN all } = { u \in Users : pwd[u] # NoUser }
       /\ \A x, y \in DOMAIN all : x # y => all[x].username # all[y].username
       /\ \A x \in DOMAIN all :
            all[x].role = IF all[x].username = OwnerName(USERNAME) THEN "owner" ELSE "user"
       /\ Cardinality({ x \in DOMAIN all : all[x].role = "owner" })
            = IF OwnerName(USERNAME) \in { u \in Users : pwd[u] # NoUser } THEN 1 ELSE 0

\* the user names the enumeration step of getAllUsers yields
Enumerated(a, st) ==
  IF a = "kvrocks" THEN SMEMBERS(st, Kvrocks_userListKey)
  ELSE { u \in Users : Redis_userPwdKey(u) \in AllKeys(st) }
\* the creation time stored for u, undefined when there is none
CreatedAtOf(a, st, u) ==
  IF a = "kvrocks"
    THEN IF "created_at" \in DOMAIN Kvrocks_getUser(st, u).v
           THEN Kvrocks_getUser(st, u).v.created_at ELSE Undefined
  ELSE IF Redis_createdAtKey(u) \in AllKeys(st) THEN GET(st, Redis_createdAtKey(u)) ELSE Undefined

(* C19: in both adapters, getAllUsers returns an entry for every enumerated *)
(* user name; a user whose creation time is missing, unparseable or fails   *)
(* to be read has created_at '', and the entries of the other users are     *)
(* what they are with no failure.                                           *)
C19_BestEffortCreatedAt ==
  \A a \in Adapters, failing \in SUBSET Users :
    LET all == getAllUsers(a, store[a], Undefined, failing)
        unfailing == getAllUsers(a, store[a], Undefined, {})
    IN /\ { all[x].username : x \in DOMAIN all } = Enumerated(a, store[a])
       /\ DOMAIN all = DOMAIN unfailing
       /\ \A x \in DOMAIN all :
            IF all[x].username \in failing \/ CreatedAtOf(a, store[a], all[x].username).t # "number"
              THEN all[x].created_at = ""
            ELSE all[x] = unfailing[x] /\ all[x].created_at # ""
\* two users are enumerated in both adapters, one with an unparseable creation time, and
\* KvrocksStorage has a creation time for the other
C19_Witness ==
  \E u, v \in Users :
    /\ u # v
    /\ \A a \in Adapters :
         /\ {u, v} \subseteq Enumerated(a, store[a])
         /\ Equivalent(CreatedAtOf(a, store[a], u), Str("abc"))
    /\ CreatedAtOf("kvrocks", store["kvrocks"], v).t = "number"

\* what the call in flight or last finished on worker p computes for adapter a
ComputedBy(p, a) == Resolved(defaultSettings(a), upd[p].current[a], upd[p].partial)

(* C20: each updateUserSettings call writes the merge of the defaults, the  *)
(* settings it read itself and its partial, whatever was written since it   *)
(* read; so after two calls for one user have both completed the stored     *)
(* record is the one the last writer computed, whole, and a field only the  *)
(* other call changed may be lost.                                          *)
C20_LastWriterWins ==
  /\ [](\A u \in Users :
          (\A p \in Workers : upd[p].op = "done" /\ upd[p].user = u) =>
            \E p \in Workers : \A a \in Adapters :
              Equivalent(StoredSettings(a, store[a], u), Obj(ComputedBy(p, a))))
  /\ [][\A p \in Workers :
          WriteSettings(p) =>
            \A a \in Adapters :
              Equivalent(StoredSettings(a, store'[a], upd[p].user), Obj(ComputedBy(p, a)))]_vars
\* two calls for one user that both read before either wrote have completed: the theme that
\* one of them set is lost
C20_Witness ==
  \E u \in Users, p, q \in Workers :
    /\ \A w \in Workers : upd[w].op = "done" /\ upd[w].user = u
    /\ upd[p].partial.theme = "dark" /\ upd[q].partial.theme = "undefined"
    /\ upd[p].current = upd[q].current
    /\ upd[p].current["kvrocks"].t = "null"
    /\ \A a \in Adapters :
         /\ Equivalent(StoredSettings(a, store[a], u), Obj(ComputedBy(q, a)))
         /\ StoredSettings(a, store[a], u).v.theme = defaultSettings(a).theme

(* C21: after overlapping addSearchHistory calls for one user have          *)
(* completed, the step that completes one further addSearchHistory(u,q)     *)
(* that ran alone (no other call in flight, the list as its own lrem and    *)
(* lpush left it) leaves a list with no string twice, at most 20 entries    *)
(* and q at the front.                                                      *)
C21_NextCallRepairs ==
  [][\A p \in Workers :
       ( /\ pc[p].op = "add" /\ pc[p].step = 3 /\ pc'[p].op = "idle"
         /\ overlapped
         /\ \A w \in Workers \ {p} : pc[w].op = "idle"
         /\ \A a \in Adapters :
              HistoryOf(a, pc[p].user) = <<pc[p].query>> \o Remove(pc[p].pre[a], pc[p].query) )
       => \A a \in Adapters :
            LET l == getSearchHistory(a, store'[a], pc[p].user)
            IN /\ NoDuplicate(l)
               /\ Len(l) <= SEARCH_HISTORY_LIMIT
               /\ l # <<>> /\ l[1] = pc[p].query]_vars

(* C22: in RedisStorage, whatever setSkipConfig or deleteSkipConfig call     *)
(* stopped between its value step and its index step, getAllSkipConfigs(u)  *)
(* reports no key with an absent value, and the step that completes a       *)
(* setSkipConfig(u,k,c) that ran alone leaves getSkipConfig(u,k) = c and    *)
(* k -> c in getAllSkipConfigs(u).                                          *)
C22_SkipIndexHeals ==
  /\ [](\A u \in SkipUsers :
          LET all == Redis_getAllSkipConfigs(store["redis"], u)
          IN \A k \in DOMAIN all :
               /\ all[k].t = "object"
               /\ Equivalent(all[k], Redis_getSkipConfig(store["redis"], u, k)))
  /\ [][\A p \in Workers :
          (SkipIndexStep(p) /\ upd[p].call = "set" /\ upd[p].alone) =>
            LET all == Redis_getAllSkipConfigs(store'["redis"], upd[p].user)
            IN /\ Equivalent(Redis_getSkipConfig(store'["redis"], upd[p].user, upd[p].key),
                             Obj(upd[p].config))
               /\ upd[p].key \in DOMAIN all
               /\ Equivalent(all[upd[p].key], Obj(upd[p].config))]_vars
\* a call on (u,k) stopped between its steps, and a later setSkipConfig(u,k,c) that ran alone
\* has completed: value and index agree on c
C22_Witness ==
  \E p, q \in Workers :
    /\ upd[p].op = "stopped"
    /\ upd[q].op = "done" /\ upd[q].call = "set" /\ upd[q].alone
    /\ upd[p].user = upd[q].user /\ upd[p].key = upd[q].key
    /\ upd[p].call = "delete" \/ upd[p].config # upd[q].config
    /\ Equivalent(Redis_getSkipConfig(store["redis"], upd[q].user, upd[q].key), Obj(upd[q].config))
    /\ upd[q].key \in DOMAIN Redis_getAllSkipConfigs(store["redis"], upd[q].user)

(* C23: in RedisStorage, after a setSkipConfig(u,k,c) and a                  *)
(* deleteSkipConfig(u,k) that overlapped have both completed, k is in the   *)
(* index set exactly when the value key exists, and getAllSkipConfigs(u)    *)
(* contains k exactly when getSkipConfig(u,k) is not null.                  *)
C23_IndexInSync ==
  \A p, q \in Workers :
    ( /\ upd[p].op = "done" /\ upd[q].op = "done"
      /\ upd[p].call = "set" /\ upd[q].call = "delete"
      /\ upd[p].user = upd[q].user /\ upd[p].key = upd[q].key
      /\ ~upd[p].alone /\ ~upd[q].alone )
    => LET u == upd[p].user
           k == upd[p].key
       IN /\ k \in SMEMBERS(store["redis"], Redis_skipConfigsKey(u))
               <=> Redis_skipConfigKey(u, k) \in AllKeys(store["redis"])
          /\ k \in DOMAIN Redis_getAllSkipConfigs(store["redis"], u)
               <=> Redis_getSkipConfig(store["redis"], u, k).t # "null"

\* the account u does not exist for adapter a: no existence, no login, no listing
Gone(a, u) ==
  /\ checkUserExist(a, store[a], u) = Bool(FALSE)
  /\ \A pw \in Passwords : ~Truthy(verifyUser(a, store[a], u, pw))
  /\ u \notin DOMAIN getAllUsers(a, store[a], Undefined, {})

(* C24: in both adapters, once deleteUser(u) has completed and no            *)
(* registerUser(u) has started since, checkUserExist(u) is false, no        *)
(* verifyUser(u, .) succeeds and getAllUsers omits u, also when a           *)
(* changePassword(u, .) that was in flight during deleteUser(u) finishes    *)
(* after it.                                                                *)
C24_DeletedStaysDeleted ==
  \A u \in Users : pwd[u] = NoUser => \A a \in Adapters : Gone(a, u)

\* the backend key adapter a derives for the entity kind of user u under sub-key k
BackendKey(a, kind, u, k) ==
  CASE kind = "pr" -> IF a = "kvrocks" THEN Kvrocks_prKey(u, k) ELSE Redis_prKey(u, k)
    [] kind = "fav" -> IF a = "kvrocks" THEN Kvrocks_favKey(u, k) ELSE Redis_favKey(u, k)
    [] kind = "skip" ->
         IF a = "kvrocks" THEN Kvrocks_skipConfigKey(u, k) ELSE Redis_skipConfigKey(u, k)
    [] kind = "user" -> IF a = "kvrocks" THEN Kvrocks_userKey(u) ELSE Redis_userPwdKey(u)
    [] kind = "history" -> IF a = "kvrocks" THEN Kvrocks_searchHistoryKey(u) ELSE Redis_shKey(u)
    [] kind = "settings" ->
         IF a = "kvrocks" THEN Kvrocks_userSettingsKey(u) ELSE Redis_userSettingsKey(u)
\* the (entity kind, username, sub-key) triples; the kinds without sub-key have the empty one
Triples ==
  (Kinds \X Users \X WideKeys) \cup ({"user", "history", "settings"} \X Users \X {<<>>})
\* what the calls for user v return from adapter a
Observed(a, st, v) ==
  [one |-> [kind \in Kinds |-> [k \in WideKeys |-> getRecord(a, st, kind, v, k)]],
   all |-> [kind \in Kinds |-> getAllRecords(a, st, kind, v)],
   exists |-> checkUserExist(a, st, v),
   history |-> getSearchHistory(a, st, v)]
\* the step is a call for user u
CallFor(u) ==
  \/ \E kind \in Kinds, k \in WideKeys, r \in Records : SetRecord(kind, u, k, r)
  \/ \E kind \in Kinds, k \in WideKeys : DeleteRecord(kind, u, k)
  \/ \E pw \in Passwords, now \in Times : RegisterUser(u, pw, now)
  \/ DeleteUser(u)

(* C25: for distinct user names and content keys that may contain ':',      *)
(* distinct (kind, username, sub-key) triples have distinct backend keys,    *)
(* getAll* of (kind,u) returns exactly what is stored for (kind,u), no call  *)
(* for u changes what the calls for another user v return, and              *)
(* RedisStorage.getAllUsers returns only user names that are registered.    *)
C25_UsersIsolated ==
  /\ [](\A a \in Adapters :
          /\ \A x, y \in Triples :
               x # y => BackendKey(a, x[1], x[2], x[3]) # BackendKey(a, y[1], y[2], y[3])
          /\ \A kind \in Kinds, u \in Users :
               LET all == getAllRecords(a, store[a], kind, u)
               IN /\ DOMAIN all = { k \in WideKeys : getRecord(a, store[a], kind, u, k).t # "null" }
                  /\ \A k \in DOMAIN all : Equivalent(all[k], getRecord(a, store[a], kind, u, k)))
  /\ [][\A u \in Users : CallFor(u) =>
          \A v \in Users \ {u}, a \in Adapters :
            Observed(a, store'[a], v) = Observed(a, store[a], v)]_vars
  /\ [](LET users == Redis_getAllUsers(store["redis"], Undefined, {})
        IN \A k \in DOMAIN users :
             users[k].username \in { u \in Users : pwd[u] # NoUser })

====
